---- MODULE Spec2Model ----
(***************************************************************************)
(* A model of messageparser.py: ingestion of exported chat archives of two *)
(* platforms into one Conversation, and the aggregations computed on it.   *)
(*                                                                         *)
(* A Python str is a sequence of characters; a character is a one-letter   *)
(* TLA+ string for ASCII and a name "U+XXXX" for anything else.  A Python  *)
(* dict is a sequence of <<key, value>> pairs in insertion order; a JSON   *)
(* object is a TLA+ record whose DOMAIN is the set of keys present.        *)
(***************************************************************************)
EXTENDS Integers, Sequences, FiniteSets, TLC

VARIABLES
    pc,                         \* position of the run
    err,                        \* the exception that ended the run and the function it left
    path,                       \* Conversation.path
    dir,                        \* the directory: file name -> parsed JSON root
    glob_list,                  \* what glob.glob returned (arbitrary order)
    file_list,                  \* load_messages: the sorted file list
    fi,                         \* load_messages: index of the current file
    mi,                         \* load_messages: index of the current message
    used_app,                   \* load_messages: local used_app ("unbound" before assignment)
    participants_fb,
    participants_discord,
    messages,                   \* Conversation.messages
    weekday_frequency,
    hour_frequency,
    day_frequency,
    emoji_frequency,
    participants_message_count,
    participants_message_length,
    plan,                       \* the aggregation calls the caller makes, in order
    ip,                         \* index of the next call of plan
    graph_x,                    \* create_graphs: x of the plot over time
    graph_y,                    \* create_graphs: y of the plot over time
    arg,                        \* argument of the function under test
    ret                         \* its return value

vars == <<pc, err, path, dir, glob_list, file_list, fi, mi, used_app,
          participants_fb, participants_discord, messages,
          weekday_frequency, hour_frequency, day_frequency, emoji_frequency,
          participants_message_count, participants_message_length,
          plan, ip, graph_x, graph_y, arg, ret>>

(***************************************************************************)
(* Characters and strings                                                  *)
(***************************************************************************)

\* The printable ASCII characters, code points 32 .. 126, in order.
Ascii ==
    <<" ", "!", "U+0022", "#", "$", "%", "&", "'", "(", ")", "*", "+", ",", "-", ".", "/",
      "0", "1", "2", "3", "4", "5", "6", "7", "8", "9", ":", ";", "<", "=", ">", "?",
      "@", "A", "B", "C", "D", "E", "F", "G", "H", "I", "J", "K", "L", "M", "N", "O",
      "P", "Q", "R", "S", "T", "U", "V", "W", "X", "Y", "Z", "[", "U+005C", "]", "^", "_",
      "U+0060", "a", "b", "c", "d", "e", "f", "g", "h", "i", "j", "k", "l", "m", "n", "o",
      "p", "q", "r", "s", "t", "u", "v", "w", "x", "y", "z", "{", "|", "}", "~">>

\* The other characters the model uses, with their code points.
NonAscii ==
    << <<"\t", 9>>, <<"\n", 10>>,
       <<"U+00C3", 195>>, <<"U+00A9", 169>>, <<"U+00E9", 233>>,
       <<"U+0652", 1618>>, <<"U+200D", 8205>>, <<"U+2764", 10084>>,
       <<"U+FE0F", 65039>>, <<"U+D83D", 55357>>, <<"U+DE42", 56898>>,
       <<"U+1F3FB", 127995>>, <<"U+1F44D", 128077>>, <<"U+1F600", 128512>>,
       <<"U+1F607", 128519>>, <<"U+1F60A", 128522>>, <<"U+1F60E", 128526>>,
       <<"U+1F610", 128528>>, <<"U+1F611", 128529>>, <<"U+1F615", 128533>>,
       <<"U+1F617", 128535>>, <<"U+1F61B", 128539>>, <<"U+1F61E", 128542>>,
       <<"U+1F622", 128546>>, <<"U+1F633", 128563>>, <<"U+1F642", 128578>> >>

\* the characters the model names
Chars == {Ascii[i] : i \in 1..Len(Ascii)} \cup {NonAscii[i][1] : i \in 1..Len(NonAscii)}

OrdTable ==
    [c \in Chars |->
        IF \E i \in 1..Len(Ascii) : Ascii[i] = c
        THEN 31 + (CHOOSE i \in 1..Len(Ascii) : Ascii[i] = c)
        ELSE NonAscii[CHOOSE i \in 1..Len(NonAscii) : NonAscii[i][1] = c][2]]

\* ord(c)
Ord(c) == OrdTable[c]

\* chr(n), for the code points the model names
Chr(n) ==
    IF n \in 32..126 THEN Ascii[n - 31]
    ELSE NonAscii[CHOOSE i \in 1..Len(NonAscii) : NonAscii[i][2] = n][1]

\* a list given element by element, as one value
List(f) == f \o <<>>

\* str.isspace() of one character
IsSpace(c) == c \in {" ", "\t", "\n"}

\* a < b for two str, as Python compares them: by code point, then by length
RECURSIVE StrLess(_, _)
StrLess(a, b) ==
    IF b = <<>> THEN FALSE
    ELSE IF a = <<>> THEN TRUE
    ELSE IF Head(a) # Head(b) THEN Ord(Head(a)) < Ord(Head(b))
    ELSE StrLess(Tail(a), Tail(b))

\* a dict: lookups and the "create at zero, then add one" of the histograms
DictHas(d, k) == \E i \in 1..Len(d) : d[i][1] = k
DictGet(d, k) == d[CHOOSE i \in 1..Len(d) : d[i][1] = k][2]
DictSet(d, k, v) ==
    IF DictHas(d, k)
    THEN [d EXCEPT ![CHOOSE i \in 1..Len(d) : d[i][1] = k] = <<k, v>>]
    ELSE Append(d, <<k, v>>)
DictKeys(d) == {d[i][1] : i \in 1..Len(d)}

RECURSIVE SumSeq(_)
SumSeq(s) == IF s = <<>> THEN 0 ELSE Head(s) + SumSeq(Tail(s))

\* the sum of a histogram's counts
DictSum(d) == SumSeq(List([i \in 1..Len(d) |-> d[i][2]]))

(***************************************************************************)
(* convert_symbols_to_emojis                                               *)
(***************************************************************************)

\* the dict convertable_emojis
convertable_emojis ==
    << << <<":", ")">>,       <<"U+1F642">> >>,
       << <<":", "D">>,       <<"U+1F600">> >>,
       << <<"^", "_", "^">>,  <<"U+1F60A">> >>,
       << <<"O", ":", ")">>,  <<"U+1F607">> >>,
       << <<":", "*">>,       <<"U+1F617">> >>,
       << <<":", "P">>,       <<"U+1F61B">> >>,
       << <<"8", ")">>,       <<"U+1F60E">> >>,
       << <<"(", "y", ")">>,  <<"U+1F44D">> >>,
       << <<":", "(">>,       <<"U+1F61E">> >>,
       << <<":", "/">>,       <<"U+1F615">> >>,
       << <<":", "'", "(">>,  <<"U+1F622">> >>,
       << <<"o", ".", "O">>,  <<"U+1F633">> >>,
       << <<"O", ".", "o">>,  <<"U+1F633">> >>,
       << <<"-", "_", "-">>,  <<"U+1F611">> >>,
       << <<":", "|">>,       <<"U+1F610">> >>,
       << <<"<", "3">>,       <<"U+2764", "U+FE0F">> >> >>

\* str.split(): the maximal runs of non-whitespace characters
RECURSIVE SplitScan(_, _, _)
SplitScan(s, cur, acc) ==
    IF s = <<>> THEN (IF cur = <<>> THEN acc ELSE Append(acc, cur))
    ELSE IF IsSpace(Head(s))
         THEN SplitScan(Tail(s), <<>>, IF cur = <<>> THEN acc ELSE Append(acc, cur))
         ELSE SplitScan(Tail(s), Append(cur, Head(s)), acc)

Split(s) == SplitScan(s, <<>>, <<>>)

\* sep.join(tokens)
RECURSIVE Join(_, _)
Join(sep, tokens) ==
    IF tokens = <<>> THEN <<>>
    ELSE IF Len(tokens) = 1 THEN tokens[1]
    ELSE tokens[1] \o sep \o Join(sep, Tail(tokens))

\* a slip: an emoticon that ends the token is replaced as well
EmojiGetSuffix(i) ==
    IF DictHas(convertable_emojis, i) THEN DictGet(convertable_emojis, i)
    ELSE IF \E k \in 2..Len(i) : DictHas(convertable_emojis, SubSeq(i, k, Len(i)))
         THEN LET k == CHOOSE k \in 2..Len(i) : DictHas(convertable_emojis, SubSeq(i, k, Len(i)))
              IN  SubSeq(i, 1, k - 1) \o DictGet(convertable_emojis, SubSeq(i, k, Len(i)))
         ELSE i

\* convertable_emojis.get(i, i)
EmojiGet(i) == IF DictHas(convertable_emojis, i) THEN DictGet(convertable_emojis, i) ELSE i

convert_symbols_to_emojis(message) ==
    LET tokens == Split(message)
    IN  Join(<<" ">>, List([k \in 1..Len(tokens) |-> EmojiGet(tokens[k])]))

(***************************************************************************)
(* Text repair: str.encode(...).decode(...)                                *)
(***************************************************************************)

\* A result of a call that may raise: the value, or the exception's name.
Ok(v) == [exc |-> "none", val |-> v]
Raise(e) == [exc |-> e, val |-> <<>>]

\* bytes.decode("utf8") of a list of byte values
RECURSIVE DecodeUtf8(_)
DecodeUtf8(b) ==
    IF b = <<>> THEN Ok(<<>>)
    ELSE LET b1 == b[1]
             n  == IF b1 < 128 THEN 1
                   ELSE IF b1 \in 194..223 THEN 2
                   ELSE IF b1 \in 224..239 THEN 3
                   ELSE IF b1 \in 240..244 THEN 4
                   ELSE 0
             cont(k) == k <= Len(b) /\ b[k] \in 128..191
             wellformed ==
                 /\ n > 0
                 /\ \A k \in 2..n : cont(k)
                 /\ (b1 = 224 => b[2] >= 160)
                 /\ (b1 = 237 => b[2] <= 159)
                 /\ (b1 = 240 => b[2] >= 144)
                 /\ (b1 = 244 => b[2] <= 143)
             cp == IF n = 1 THEN b1
                   ELSE IF n = 2 THEN (b1 - 192) * 64 + (b[2] - 128)
                   ELSE IF n = 3 THEN (b1 - 224) * 4096 + (b[2] - 128) * 64 + (b[3] - 128)
                   ELSE (b1 - 240) * 262144 + (b[2] - 128) * 4096
                        + (b[3] - 128) * 64 + (b[4] - 128)
         IN  IF ~wellformed THEN Raise("UnicodeDecodeError")
             ELSE LET rest == DecodeUtf8(SubSeq(b, n + 1, Len(b)))
                  IN  IF rest.exc # "none" THEN rest
                      ELSE Ok(<<Chr(cp)>> \o rest.val)

\* s.encode("latin1").decode("utf8")
RepairLatin1(s) ==
    IF \E i \in 1..Len(s) : Ord(s[i]) > 255 THEN Raise("UnicodeEncodeError")
    ELSE DecodeUtf8(List([i \in 1..Len(s) |-> Ord(s[i])]))

\* s.encode("utf-16", "surrogatepass").decode("utf-16"): the code units of s,
\* a high and a low surrogate in a row read as one character
RECURSIVE RepairUtf16(_)
RepairUtf16(s) ==
    IF s = <<>> THEN Ok(<<>>)
    ELSE LET c == Ord(s[1])
             pair == /\ c \in 55296..56319
                     /\ Len(s) >= 2
                     /\ Ord(s[2]) \in 56320..57343
             lone == c \in 55296..57343 /\ ~pair
             units == IF c > 65535 \/ pair THEN 2 ELSE 1
             one == IF pair
                    THEN Chr(65536 + (c - 55296) * 1024 + (Ord(s[2]) - 56320))
                    ELSE s[1]
         IN  IF lone THEN Raise("UnicodeDecodeError")
             ELSE LET rest == RepairUtf16(SubSeq(s, (IF pair THEN 3 ELSE 2), Len(s)))
                  IN  IF rest.exc # "none" THEN rest
                      ELSE Ok(<<one>> \o rest.val)

(***************************************************************************)
(* Timestamps: datetime.fromtimestamp, datetime.fromisoformat, ctime       *)
(* The local time zone of the run is UTC.                                  *)
(***************************************************************************)

Weekdays == <<"Mon", "Tue", "Wed", "Thu", "Fri", "Sat", "Sun">>
months == <<"Jan", "Feb", "Mar", "Apr", "May", "Jun",
            "Jul", "Aug", "Sep", "Oct", "Nov", "Dec">>

\* the characters of a short TLA+ string of letters
Letters(w) ==
    CASE w = "Mon" -> <<"M", "o", "n">> [] w = "Tue" -> <<"T", "u", "e">>
      [] w = "Wed" -> <<"W", "e", "d">> [] w = "Thu" -> <<"T", "h", "u">>
      [] w = "Fri" -> <<"F", "r", "i">> [] w = "Sat" -> <<"S", "a", "t">>
      [] w = "Sun" -> <<"S", "u", "n">> [] w = "Jan" -> <<"J", "a", "n">>
      [] w = "Feb" -> <<"F", "e", "b">> [] w = "Mar" -> <<"M", "a", "r">>
      [] w = "Apr" -> <<"A", "p", "r">> [] w = "May" -> <<"M", "a", "y">>
      [] w = "Jun" -> <<"J", "u", "n">> [] w = "Jul" -> <<"J", "u", "l">>
      [] w = "Aug" -> <<"A", "u", "g">> [] w = "Sep" -> <<"S", "e", "p">>
      [] w = "Oct" -> <<"O", "c", "t">> [] w = "Nov" -> <<"N", "o", "v">>
      [] w = "Dec" -> <<"D", "e", "c">>

\* days since 1970-01-01 of a civil date, and back
DaysFromCivil(y0, m, d) ==
    LET y   == IF m <= 2 THEN y0 - 1 ELSE y0
        era == y \div 400
        yoe == y - era * 400
        doy == (153 * (IF m > 2 THEN m - 3 ELSE m + 9) + 2) \div 5 + d - 1
        doe == yoe * 365 + yoe \div 4 - yoe \div 100 + doy
    IN  era * 146097 + doe - 719468

CivilFromDays(z0) ==
    LET z   == z0 + 719468
        era == z \div 146097
        doe == z - era * 146097
        yoe == (doe - doe \div 1460 + doe \div 36524 - doe \div 146096) \div 365
        doy == doe - (365 * yoe + yoe \div 4 - yoe \div 100)
        mp  == (5 * doy + 2) \div 153
        d   == doy - (153 * mp + 2) \div 5 + 1
        m   == IF mp < 10 THEN mp + 3 ELSE mp - 9
        y   == yoe + era * 400 + (IF m <= 2 THEN 1 ELSE 0)
    IN  [year |-> y, month |-> m, day |-> d]

\* the decimal digits of n, at least `width` of them, padded on the left with `fill`
RECURSIVE Digits(_)
Digits(n) == IF n < 10 THEN <<Chr(48 + n)>> ELSE Append(Digits(n \div 10), Chr(48 + (n % 10)))

RECURSIVE PadLeft(_, _, _)
PadLeft(s, width, fill) == IF Len(s) >= width THEN s ELSE PadLeft(<<fill>> \o s, width, fill)

\* the number a string of decimal digits writes
RECURSIVE ParseInt(_)
ParseInt(s) ==
    IF s = <<>> THEN 0 ELSE ParseInt(SubSeq(s, 1, Len(s) - 1)) * 10 + (Ord(s[Len(s)]) - 48)

\* datetime.ctime(): "Fri Jan  1 00:00:00 2021"
Ctime(dt) ==
    LET wd == Weekdays[((DaysFromCivil(dt.year, dt.month, dt.day) + 3) % 7) + 1]
    IN  Letters(wd) \o <<" ">> \o Letters(months[dt.month]) \o <<" ">>
        \o PadLeft(Digits(dt.day), 2, " ") \o <<" ">>
        \o PadLeft(Digits(dt.hour), 2, "0") \o <<":">>
        \o PadLeft(Digits(dt.minute), 2, "0") \o <<":">>
        \o PadLeft(Digits(dt.second), 2, "0") \o <<" ">>
        \o PadLeft(Digits(dt.year), 4, "0")

\* datetime.fromtimestamp(timestamp_ms / 1000); timestamp_ms is held as whole
\* seconds and the milliseconds left over
FromTimestamp(ts) ==
    LET days == ts.s \div 86400
        rem  == ts.s % 86400
        date == CivilFromDays(days)
    IN  [year |-> date.year, month |-> date.month, day |-> date.day,
         hour |-> rem \div 3600, minute |-> (rem % 3600) \div 60, second |-> rem % 60]

\* str.split(sep) for a one-character separator: empty pieces are kept
RECURSIVE SplitOnScan(_, _, _, _)
SplitOnScan(s, sep, cur, acc) ==
    IF s = <<>> THEN Append(acc, cur)
    ELSE IF Head(s) = sep THEN SplitOnScan(Tail(s), sep, <<>>, Append(acc, cur))
    ELSE SplitOnScan(Tail(s), sep, Append(cur, Head(s)), acc)

SplitOn(s, sep) == SplitOnScan(s, sep, <<>>, <<>>)

\* datetime.fromisoformat("YYYY-MM-DDTHH:MM:SS")
FromIsoFormat(s) ==
    [year |-> ParseInt(SubSeq(s, 1, 4)), month |-> ParseInt(SubSeq(s, 6, 7)),
     day |-> ParseInt(SubSeq(s, 9, 10)), hour |-> ParseInt(SubSeq(s, 12, 13)),
     minute |-> ParseInt(SubSeq(s, 15, 16)), second |-> ParseInt(SubSeq(s, 18, 19))]


(***************************************************************************)
(* load_messages: one message                                              *)
(***************************************************************************)

\* a slip: the videos test comes before the content test
MessageTypeVideosFirst(message) ==
    IF "videos" \in DOMAIN message THEN "video"
    ELSE IF "content" \in DOMAIN message THEN "text"
    ELSE IF "photos" \in DOMAIN message THEN "photo"
    ELSE IF "sticker" \in DOMAIN message THEN "sticker"
    ELSE IF "gifs" \in DOMAIN message THEN "gif"
    ELSE IF "files" \in DOMAIN message THEN "file"
    ELSE IF "audio_files" \in DOMAIN message THEN "audio"
    ELSE IF "is_unsent" \notin DOMAIN message THEN "KeyError"
    ELSE IF message.is_unsent THEN "deleted"
    ELSE "continue"

\* the if/elif chain of load_messages: the message_type it assigns, "continue"
\* when it skips the message, "KeyError" when message["is_unsent"] raises
MessageType(message) ==
    IF "content" \in DOMAIN message THEN "text"
    ELSE IF "videos" \in DOMAIN message THEN "video"
    ELSE IF "photos" \in DOMAIN message THEN "photo"
    ELSE IF "sticker" \in DOMAIN message THEN "sticker"
    ELSE IF "gifs" \in DOMAIN message THEN "gif"
    ELSE IF "files" \in DOMAIN message THEN "file"
    ELSE IF "audio_files" \in DOMAIN message THEN "audio"
    ELSE IF "is_unsent" \notin DOMAIN message THEN "KeyError"
    ELSE IF message.is_unsent THEN "deleted"
    ELSE "continue"

\* message_content of a message that has "content"
MessageContent(message, app) ==
    IF app = "unbound" THEN Raise("UnboundLocalError")
    ELSE LET repaired == IF app = "facebook" THEN RepairLatin1(message.content)
                         ELSE RepairUtf16(message.content)
         IN  IF repaired.exc # "none" THEN repaired
             ELSE Ok(convert_symbols_to_emojis(repaired.val))

\* message_date and message_author
MessageDateAuthor(message, app) ==
    IF app = "unbound" THEN Raise("UnboundLocalError")
    ELSE IF app = "facebook"
    THEN IF {"timestamp_ms", "sender_name"} \subseteq DOMAIN message
         THEN LET author == RepairLatin1(message.sender_name)
              IN  IF author.exc # "none" THEN author
                  ELSE Ok([time |-> Ctime(FromTimestamp(message.timestamp_ms)),
                           author |-> author.val])
         ELSE Raise("KeyError")
    ELSE IF "timestamp" \in DOMAIN message /\ "author" \in DOMAIN message
         THEN Ok([time |-> Ctime(FromIsoFormat(SplitOn(message.timestamp, ".")[1])),
                  author |-> message.author.name])
         ELSE Raise("KeyError")

\* one pass of the loop body: the Message to add, or nothing, or the exception
ProcessMessage(message, app) ==
    LET type == MessageType(message)
        content == IF type = "text" THEN MessageContent(message, app) ELSE Ok(<<>>)
        who == MessageDateAuthor(message, app)
    IN  IF type = "KeyError" THEN Raise("KeyError")
        ELSE IF type = "continue" THEN Ok(<<>>)
        ELSE IF content.exc # "none" THEN content
        ELSE IF who.exc # "none" THEN who
        ELSE Ok(<<[time |-> who.val.time, message_type |-> type, content |-> content.val,
                   author |-> who.val.author, platform |-> app]>>)


(***************************************************************************)
(* Sorting                                                                 *)
(***************************************************************************)

\* sorted(s, key=...): the key of each element is computed once, and elements
\* of equal keys keep their order
Ranked(s, rank) == [k \in 1..Len(s) |-> s[CHOOSE i \in 1..Len(s) : rank[i] = k]]

\* below holds <<j, i>> when the key of s[j] is less than the key of s[i]
Sorted(s, below) ==
    List(Ranked(s, List([i \in 1..Len(s) |->
                  1 + Cardinality({j \in 1..Len(s) :
                          <<j, i>> \in below \/ (<<i, j>> \notin below /\ j < i)})])))

\* every order in which the elements of a set may be listed
Orders(S) ==
    {s \in [1..Cardinality(S) -> S] : \A i, j \in 1..Cardinality(S) : s[i] = s[j] => i = j}

\* str.lower()
Lower(s) ==
    List([i \in 1..Len(s) |-> IF Ord(s[i]) \in 65..90 THEN Chr(Ord(s[i]) + 32) ELSE s[i]])

\* the width of the format "{0:0>20}"
KeyWidth == 20

\* the key of file_list.sort: "{0:0>20}".format(x).lower()
FileSortKey(f) == Lower(PadLeft(f, KeyWidth, "0"))


\* a slip: the day is not padded
SortkeyDatePlain(item) ==
    LET t == Split(item[1])
    IN  <<t[3], CHOOSE i \in 1..Len(months) : Letters(months[i]) = t[1], t[2]>>

\* sortkey_date(x): [year, months.index(month), "{0:0>2}".format(day)]
sortkey_date(item) ==
    LET t == Split(item[1])
    IN  <<t[3], CHOOSE i \in 1..Len(months) : Letters(months[i]) = t[1],
          PadLeft(t[2], 2, "0")>>

\* a < b for two such lists, as Python compares lists
ListLess(a, b) ==
    \/ StrLess(a[1], b[1])
    \/ a[1] = b[1] /\ a[2] < b[2]
    \/ a[1] = b[1] /\ a[2] = b[2] /\ StrLess(a[3], b[3])

(***************************************************************************)
(* The aggregations                                                        *)
(***************************************************************************)

Last(s) == s[Len(s)]

\* the keys the three histograms take from message.time
WeekdayOf(time) == SplitOn(time, " ")[1]
HourOf(time) == Last(SplitOn(SplitOn(time, ":")[1], " "))
DayOf(time) ==
    LET t == Split(time)
        u == Split(SplitOn(time, ":")[1])
    IN  t[2] \o <<" ">> \o u[Len(u) - 1] \o <<" ">> \o Last(t)

\* if key not in d: d[key] = 0; d[key] += 1, for each key in turn
RECURSIVE CountInto(_, _)
CountInto(d, keys) ==
    IF keys = <<>> THEN d
    ELSE LET d0 == IF DictHas(d, Head(keys)) THEN d ELSE Append(d, <<Head(keys), 0>>)
         IN  CountInto(DictSet(d0, Head(keys), DictGet(d0, Head(keys)) + 1), Tail(keys))

\* a slip: the histogram is emptied before it is counted
RecountFrequency(d, keys) == CountInto(<<>>, keys)

\* the loop of get_weekday_frequency, get_hour_frequency and get_day_frequency
AddFrequency(d, keys) == CountInto(d, keys)

ORD_EMOJI_CUTOFF == 1000
NON_EMOJI_ORDS == {65039, 8205, 8211, 8222, 8220, 8217, 8212, 1618, 127995}

\* the characters \w matches, among those the model names
IsWord(c) ==
    \/ Ord(c) \in 48..57 \/ Ord(c) \in 65..90 \/ Ord(c) \in 97..122 \/ c = "_"
    \/ c \in {"U+00C3", "U+00E9"}

\* the emojis get_emoji_frequency counts in one content
EmojisOf(content) ==
    SelectSeq(content, LAMBDA c : /\ ~IsWord(c) /\ ~IsSpace(c) /\ c # ","
                                  /\ Ord(c) > ORD_EMOJI_CUTOFF
                                  /\ Ord(c) \notin NON_EMOJI_ORDS)

RECURSIVE Flatten(_)
Flatten(ss) == IF ss = <<>> THEN <<>> ELSE Head(ss) \o Flatten(Tail(ss))

\* self.participants_message_length[message.author].append(len(message.content))
Sample(length, message) ==
    DictSet(length, message.author,
            Append(DictGet(length, message.author), Len(message.content)))

\* the loop of analyze_message_length; it stops at the first KeyError
RECURSIVE AnalyzeLoop(_, _, _)
AnalyzeLoop(count, length, msgs) ==
    IF msgs = <<>> THEN [exc |-> "none", count |-> count, length |-> length]
    ELSE LET m == Head(msgs)
             c0 == IF DictHas(count, m.author) THEN count ELSE Append(count, <<m.author, 0>>)
             c1 == DictSet(c0, m.author, DictGet(c0, m.author) + 1)
         IN  IF ~DictHas(length, m.author)
             THEN [exc |-> "KeyError", count |-> c1, length |-> length]
             ELSE AnalyzeLoop(c1, Sample(length, m), Tail(msgs))

AVERAGE_MESSAGE_ROLLING_WINDOW == 30

\* np.convolve(a, v, 'valid'): the shorter of the two slides along the longer
Slide(long, short) ==
    List([k \in 1..(Len(long) - Len(short) + 1) |->
            SumSeq(List([j \in 1..Len(short) |-> long[k + j - 1] * short[Len(short) - j + 1]]))])

Convolve(a, v) == IF Len(v) > Len(a) THEN Slide(v, a) ELSE Slide(a, v)

\* np.ones(n)
Ones(n) == List([i \in 1..n |-> 1])

\* x[AVERAGE_MESSAGE_ROLLING_WINDOW-1:]
CutLabels(labels) == SubSeq(labels, AVERAGE_MESSAGE_ROLLING_WINDOW, Len(labels))

\* sums / W, each value an exact fraction
Over(sums, w) == List([k \in 1..Len(sums) |-> [num |-> sums[k], den |-> w]])

\* np.convolve(y, np.ones(W), 'valid') / W
RollingAverage(counts) ==
    Over(Convolve(counts, Ones(AVERAGE_MESSAGE_ROLLING_WINDOW)), AVERAGE_MESSAGE_ROLLING_WINDOW)

(***************************************************************************)
(* load_conversation_metadata                                              *)
(***************************************************************************)

Kiki == <<"k", "i", "k", "i">>
Message1 == <<"m", "e", "s", "s", "a", "g", "e", "_", "1", ".", "j", "s", "o", "n">>
DotJson == <<".", "j", "s", "o", "n">>

\* the characters of the class [!message_*.json]
BracketClass == {"m", "e", "s", "a", "g", "_", "*", ".", "j", "o", "n"}

\* glob.glob("kiki/[!message_*.json]*"): the directory the model holds is the
\* corpus directory, so the pattern matches only when that is "kiki"
OtherFiles ==
    {n \in DictKeys(dir) : path = Kiki /\ n # <<>> /\ n[1] \notin BracketClass}

\* the repaired strings of a list, or the first exception
RepairAll(r) ==
    LET bad == {i \in 1..Len(r) : r[i].exc # "none"}
    IN  IF bad # {} THEN r[CHOOSE i \in bad : \A j \in bad : i <= j]
        ELSE Ok(List([i \in 1..Len(r) |-> r[i].val]))

\* participants_fb, from message_1.json
FbParticipants ==
    LET first == DictGet(dir, Message1)
    IN  IF "participants" \notin DOMAIN first THEN Raise("KeyError")
        ELSE LET names == RepairAll(List([i \in 1..Len(first.participants) |->
                                             RepairLatin1(first.participants[i].name)]))
             IN  IF names.exc # "none" THEN names
                 ELSE IF first.messages = <<>> THEN Raise("IndexError")
                 ELSE IF "timestamp_ms" \notin DOMAIN first.messages[1] THEN Raise("KeyError")
                 ELSE names

\* the nicknames of the authors of the file `other`, one entry per message
DiscordNicknames(other) ==
    LET msgs == DictGet(dir, other).messages
    IN  IF \E i \in 1..Len(msgs) : "author" \notin DOMAIN msgs[i] THEN Raise("KeyError")
        ELSE LET nicks == RepairAll(List([i \in 1..Len(msgs) |->
                                            RepairUtf16(msgs[i].author.nickname)]))
             IN  IF nicks.exc # "none" THEN nicks
                 ELSE IF msgs = <<>> THEN Raise("IndexError")
                 ELSE IF "timestamp" \notin DOMAIN Last(msgs) THEN Raise("KeyError")
                 ELSE nicks

\* {participant: [] for participant in participants_fb + participants_discord}
RECURSIVE EmptyLists(_, _)
EmptyLists(d, names) ==
    IF names = <<>> THEN d ELSE EmptyLists(DictSet(d, Head(names), <<>>), Tail(names))

\* an exception nobody catches ends the run
NoError == [exc |-> "none", in |-> "none"]
Fail(e, where) == pc' = "error" /\ err' = [exc |-> e, in |-> where]

LoadConversationMetadata ==
    /\ pc = "metadata"
    /\ LET fb == FbParticipants
       IN  IF fb.exc # "none"
           THEN Fail(fb.exc, "load_conversation_metadata") /\ UNCHANGED <<participants_fb, participants_discord,
                                            participants_message_length>>
           ELSE IF OtherFiles = {}
           THEN Fail("IndexError", "load_conversation_metadata") /\ UNCHANGED <<participants_fb, participants_discord,
                                                  participants_message_length>>
           ELSE \E other \in OtherFiles :
                  LET nicks == DiscordNicknames(other)
                  IN  IF nicks.exc # "none"
                      THEN Fail(nicks.exc, "load_conversation_metadata")
                           /\ UNCHANGED <<participants_fb, participants_discord,
                                          participants_message_length>>
                      ELSE \E discord \in Orders({nicks.val[i] : i \in 1..Len(nicks.val)}) :
                             /\ participants_fb' = fb.val
                             /\ participants_discord' = discord
                             /\ participants_message_length' =
                                    EmptyLists(<<>>, fb.val \o discord)
                             /\ pc' = "glob"
                             /\ err' = err
    /\ UNCHANGED <<path, dir, glob_list, file_list, fi, mi, used_app, messages,
                   weekday_frequency, hour_frequency, day_frequency, emoji_frequency,
                   participants_message_count, plan, ip, graph_x, graph_y, arg, ret>>

(***************************************************************************)
(* load_messages                                                           *)
(***************************************************************************)

EndsWith(s, suffix) ==
    Len(s) >= Len(suffix) /\ SubSeq(s, Len(s) - Len(suffix) + 1, Len(s)) = suffix

\* glob.glob(f"{conversation.path}/*.json"), in whatever order the system lists it
Glob ==
    /\ pc = "glob"
    /\ glob_list' \in Orders({path \o <<"/">> \o n : n \in {k \in DictKeys(dir) :
                                                          EndsWith(k, DotJson) /\ k[1] # "."}})
    /\ pc' = "sort"
    /\ UNCHANGED <<err, path, dir, file_list, fi, mi, used_app,
                   participants_fb, participants_discord, messages,
                   weekday_frequency, hour_frequency, day_frequency, emoji_frequency,
                   participants_message_count, participants_message_length,
                   plan, ip, graph_x, graph_y, arg, ret>>

\* the pairs of file keys in order, as str compares
FileKeysBelow(keys) ==
    {p \in (1..Len(keys)) \X (1..Len(keys)) : StrLess(keys[p[1]], keys[p[2]])}

\* file_list.sort(key=...)
SortFileList ==
    /\ pc = "sort"
    /\ file_list' = Sorted(glob_list, FileKeysBelow(List([i \in 1..Len(glob_list) |->
                                                     FileSortKey(glob_list[i])])))
    /\ fi' = 1
    /\ pc' = "open"
    /\ UNCHANGED <<err, path, dir, glob_list, mi, used_app,
                   participants_fb, participants_discord, messages,
                   weekday_frequency, hour_frequency, day_frequency, emoji_frequency,
                   participants_message_count, participants_message_length,
                   plan, ip, graph_x, graph_y, arg, ret>>

\* the JSON root of the file the loop is at
CurrentRoot == DictGet(dir, SubSeq(file_list[fi], Len(path) + 2, Len(file_list[fi])))

\* the if/elif that assigns used_app; with neither key it is left as it was
Detect(root, app) ==
    IF "channel" \in DOMAIN root THEN "discord"
    ELSE IF "participants" \in DOMAIN root THEN "facebook"
    ELSE app

\* open the next file and json.load it
OpenFile ==
    /\ pc = "open"
    /\ fi <= Len(file_list)
    /\ used_app' = Detect(CurrentRoot, used_app)
    /\ mi' = 1
    /\ pc' = "message"
    /\ UNCHANGED <<err, path, dir, glob_list, file_list, fi,
                   participants_fb, participants_discord, messages,
                   weekday_frequency, hour_frequency, day_frequency, emoji_frequency,
                   participants_message_count, participants_message_length,
                   plan, ip, graph_x, graph_y, arg, ret>>

\* one pass of "for message in messages["messages"]"
LoadMessage ==
    /\ pc = "message"
    /\ mi <= Len(CurrentRoot.messages)
    /\ LET r == ProcessMessage(CurrentRoot.messages[mi], used_app)
       IN  IF r.exc # "none"
           THEN Fail(r.exc, "load_messages") /\ UNCHANGED <<messages, mi>>
           ELSE /\ messages' = messages \o r.val
                /\ mi' = mi + 1
                /\ UNCHANGED <<pc, err>>
    /\ UNCHANGED <<path, dir, glob_list, file_list, fi, used_app,
                   participants_fb, participants_discord,
                   weekday_frequency, hour_frequency, day_frequency, emoji_frequency,
                   participants_message_count, participants_message_length,
                   plan, ip, graph_x, graph_y, arg, ret>>

\* the file is exhausted: on to the next one
CloseFile ==
    /\ pc = "message"
    /\ mi > Len(CurrentRoot.messages)
    /\ fi' = fi + 1
    /\ pc' = "open"
    /\ UNCHANGED <<err, path, dir, glob_list, file_list, mi, used_app,
                   participants_fb, participants_discord, messages,
                   weekday_frequency, hour_frequency, day_frequency, emoji_frequency,
                   participants_message_count, participants_message_length,
                   plan, ip, graph_x, graph_y, arg, ret>>

\* load_messages returns
LoadMessagesReturn ==
    /\ pc = "open"
    /\ fi > Len(file_list)
    /\ pc' = "analyze"
    /\ UNCHANGED <<err, path, dir, glob_list, file_list, fi, mi, used_app,
                   participants_fb, participants_discord, messages,
                   weekday_frequency, hour_frequency, day_frequency, emoji_frequency,
                   participants_message_count, participants_message_length,
                   plan, ip, graph_x, graph_y, arg, ret>>


(***************************************************************************)
(* The aggregation calls, in the order the caller's plan gives             *)
(***************************************************************************)

Calling(f) == pc = "analyze" /\ ip <= Len(plan) /\ plan[ip] = f

\* message.time for each message in turn
Times == List([i \in 1..Len(messages) |-> messages[i].time])

GetWeekdayFrequency ==
    /\ Calling("weekday")
    /\ weekday_frequency' =
           AddFrequency(weekday_frequency, List([i \in 1..Len(Times) |-> WeekdayOf(Times[i])]))
    /\ ip' = ip + 1
    /\ UNCHANGED <<pc, err, path, dir, glob_list, file_list, fi, mi, used_app,
                   participants_fb, participants_discord, messages,
                   hour_frequency, day_frequency, emoji_frequency,
                   participants_message_count, participants_message_length,
                   plan, graph_x, graph_y, arg, ret>>

GetHourFrequency ==
    /\ Calling("hour")
    /\ hour_frequency' =
           AddFrequency(hour_frequency, List([i \in 1..Len(Times) |-> HourOf(Times[i])]))
    /\ ip' = ip + 1
    /\ UNCHANGED <<pc, err, path, dir, glob_list, file_list, fi, mi, used_app,
                   participants_fb, participants_discord, messages,
                   weekday_frequency, day_frequency, emoji_frequency,
                   participants_message_count, participants_message_length,
                   plan, graph_x, graph_y, arg, ret>>

GetDayFrequency ==
    /\ Calling("day")
    /\ day_frequency' =
           AddFrequency(day_frequency, List([i \in 1..Len(Times) |-> DayOf(Times[i])]))
    /\ ip' = ip + 1
    /\ UNCHANGED <<pc, err, path, dir, glob_list, file_list, fi, mi, used_app,
                   participants_fb, participants_discord, messages,
                   weekday_frequency, hour_frequency, emoji_frequency,
                   participants_message_count, participants_message_length,
                   plan, graph_x, graph_y, arg, ret>>

GetEmojiFrequency ==
    /\ Calling("emoji")
    /\ emoji_frequency' =
           CountInto(emoji_frequency,
                     Flatten(List([i \in 1..Len(messages) |-> EmojisOf(messages[i].content)])))
    /\ ip' = ip + 1
    /\ UNCHANGED <<pc, err, path, dir, glob_list, file_list, fi, mi, used_app,
                   participants_fb, participants_discord, messages,
                   weekday_frequency, hour_frequency, day_frequency,
                   participants_message_count, participants_message_length,
                   plan, graph_x, graph_y, arg, ret>>

AnalyzeMessageLength ==
    /\ Calling("length")
    /\ LET r == AnalyzeLoop(participants_message_count, participants_message_length, messages)
       IN  /\ participants_message_count' = r.count
           /\ participants_message_length' = r.length
           /\ IF r.exc # "none"
              THEN Fail(r.exc, "analyze_message_length") /\ ip' = ip
              ELSE ip' = ip + 1 /\ UNCHANGED <<pc, err>>
    /\ UNCHANGED <<path, dir, glob_list, file_list, fi, mi, used_app,
                   participants_fb, participants_discord, messages,
                   weekday_frequency, hour_frequency, day_frequency, emoji_frequency,
                   plan, graph_x, graph_y, arg, ret>>

(***************************************************************************)
(* create_graphs                                                           *)
(***************************************************************************)

\* one half of zip(*items)
Column(items, c) == List([i \in 1..Len(items) |-> items[i][c]])

days == <<"Mon", "Tue", "Wed", "Thu", "Fri", "Sat", "Sun">>

\* the weekday and hour bars: x.index(day) raises when a weekday has no message
CreateGraphsBars ==
    /\ pc = "analyze"
    /\ ip > Len(plan)
    /\ IF /\ weekday_frequency # <<>>
          /\ \E i \in 1..Len(days) : ~DictHas(weekday_frequency, Letters(days[i]))
       THEN Fail("ValueError", "create_graphs")
       ELSE pc' = "graph_days" /\ err' = err
    /\ UNCHANGED <<path, dir, glob_list, file_list, fi, mi, used_app,
                   participants_fb, participants_discord, messages,
                   weekday_frequency, hour_frequency, day_frequency, emoji_frequency,
                   participants_message_count, participants_message_length,
                   plan, ip, graph_x, graph_y, arg, ret>>

\* the pairs of date keys in order, as lists compare
DateKeysBelow(keys) ==
    {p \in (1..Len(keys)) \X (1..Len(keys)) : ListLess(keys[p[1]], keys[p[2]])}

\* sorted(self.day_frequency.items(), key=sortkey_date)
SortedDays(items) ==
    Sorted(items, DateKeysBelow(List([i \in 1..Len(items) |-> sortkey_date(items[i])])))

\* x = sorted(self.day_frequency.items(), key=sortkey_date); x, y = zip(*x)
CreateGraphsSort ==
    /\ pc = "graph_days"
    /\ IF day_frequency = <<>>
       THEN pc' = "graph_rest" /\ UNCHANGED <<graph_x, graph_y>>
       ELSE /\ graph_x' = Column(SortedDays(day_frequency), 1)
            /\ graph_y' = Column(SortedDays(day_frequency), 2)
            /\ pc' = "graph_rolling"
    /\ UNCHANGED <<err, path, dir, glob_list, file_list, fi, mi, used_app,
                   participants_fb, participants_discord, messages,
                   weekday_frequency, hour_frequency, day_frequency, emoji_frequency,
                   participants_message_count, participants_message_length,
                   plan, ip, arg, ret>>

\* the rolling average, the cut of the labels, and plt.plot(x, y), which raises
\* when x and y differ in length
CreateGraphsRolling ==
    /\ pc = "graph_rolling"
    /\ graph_y' = RollingAverage(graph_y)
    /\ graph_x' = CutLabels(graph_x)
    /\ IF Len(graph_x') # Len(graph_y')
       THEN Fail("ValueError", "create_graphs")
       ELSE pc' = "graph_rest" /\ err' = err
    /\ UNCHANGED <<path, dir, glob_list, file_list, fi, mi, used_app,
                   participants_fb, participants_discord, messages,
                   weekday_frequency, hour_frequency, day_frequency, emoji_frequency,
                   participants_message_count, participants_message_length,
                   plan, ip, arg, ret>>

\* the participant and emoji charts read the aggregates and change nothing
CreateGraphsRest ==
    /\ pc = "graph_rest"
    /\ pc' = "done"
    /\ UNCHANGED <<err, path, dir, glob_list, file_list, fi, mi, used_app,
                   participants_fb, participants_discord, messages,
                   weekday_frequency, hour_frequency, day_frequency, emoji_frequency,
                   participants_message_count, participants_message_length,
                   plan, ip, graph_x, graph_y, arg, ret>>

(***************************************************************************)
(* A call of convert_symbols_to_emojis on its own                          *)
(***************************************************************************)

CallConvertSymbols ==
    /\ pc = "call"
    /\ ret' = convert_symbols_to_emojis(arg)
    /\ pc' = "returned"
    /\ UNCHANGED <<err, path, dir, glob_list, file_list, fi, mi, used_app,
                   participants_fb, participants_discord, messages,
                   weekday_frequency, hour_frequency, day_frequency, emoji_frequency,
                   participants_message_count, participants_message_length,
                   plan, ip, graph_x, graph_y, arg>>


(***************************************************************************)
(* The corpora the runs start from                                         *)
(***************************************************************************)

MaxMsgs == 1        \* messages per file of the varied corpora
MaxCalls == 3       \* aggregation calls of a free plan
MaxDays == 32       \* consecutive days of a long export
MaxDates == 3       \* messages of an export with scattered dates
MaxPieces == 4      \* pieces of an argument of convert_symbols_to_emojis
MaxFileNo == 12     \* the highest N of a message_N.json
MaxDirLen == 8      \* characters of a directory name
MaxFiles == 3       \* files glob lists

Ann == <<"A", "n", "n">>
ReneRaw == <<"R", "e", "n", "U+00C3", "U+00A9">>    \* "René" as the export writes it
Cat == <<"c", "a", "t">>
Dan == <<"d", "a", "n">>
Danny == <<"D", "a", "n", "n", "y">>
HiSmile == <<"h", "i", " ", ":", ")">>
CafeRaw == <<"c", "a", "f", "U+00C3", "U+00A9">>
YoHeart == <<"y", "o", " ", " ", "<", "3">>
Grin == <<"U+1F600">>

DmJson == <<"d", "m", ".", "j", "s", "o", "n">>
XJson == <<"x", ".", "j", "s", "o", "n">>
ExportJson == <<"e", "x", "p", "o", "r", "t", ".", "j", "s", "o", "n">>
Message2 == <<"m", "e", "s", "s", "a", "g", "e", "_", "2", ".", "j", "s", "o", "n">>

PayloadKeys ==
    {"content", "videos", "photos", "sticker", "gifs", "files", "audio_files", "is_unsent"}

\* a Platform A message: sent `day` days after 2021-01-01, at `hour` o'clock
FbMessage(day, hour, sender, payload) ==
    [timestamp_ms |-> [s |-> 1609459200 + day * 86400 + hour * 3600, ms |-> 0],
     sender_name |-> sender] @@ payload

\* a Platform B message, sent on 2021-01-0k at 1k o'clock
DiscordMessage(k, name, nickname, payload) ==
    [timestamp |-> <<"2", "0", "2", "1", "-", "0", "1", "-", "0">> \o Digits(k)
                   \o <<"T", "1">> \o Digits(k)
                   \o <<":", "3", "0", ":", "0", "0", ".", "1", "2", "3", "+", "0", "0", ":", "0", "0">>,
     author |-> [name |-> name, nickname |-> nickname]] @@ payload

\* a message object with exactly the payload keys `keys`
Payload(keys, unsent) ==
    [k \in keys |-> IF k = "content" THEN HiSmile ELSE IF k = "is_unsent" THEN unsent ELSE <<>>]

NoPayload == Payload({}, FALSE)

\* lists of 1 .. n elements of S
Lists(S, n) == UNION {[1..len -> S] : len \in 1..n}

FbChoices ==
    {<<Ann, Payload({"content"}, FALSE)>>, <<ReneRaw, [content |-> CafeRaw]>>,
     <<Ann, Payload({"photos"}, FALSE)>>, <<Ann, Payload({"is_unsent"}, FALSE)>>,
     <<Ann, NoPayload>>, <<ReneRaw, Payload({"is_unsent"}, TRUE)>>}

DiscordChoices ==
    {<<Cat, Cat, [content |-> YoHeart]>>, <<Dan, Danny, [content |-> Grin]>>,
     <<Cat, Cat, NoPayload>>}

FbList(c) == List([k \in 1..Len(c) |-> FbMessage(k - 1, 9 + k, c[k][1], c[k][2])])
DiscordList(c) == List([k \in 1..Len(c) |-> DiscordMessage(k, c[k][1], c[k][2], c[k][3])])

FbRoot(names, msgs) ==
    [participants |-> List([i \in 1..Len(names) |-> [name |-> names[i]]]), messages |-> msgs]
DiscordRoot(msgs) == [channel |-> [name |-> <<"d", "m">>], messages |-> msgs]
BareRoot(msgs) == [messages |-> msgs]

\* the varied corpora: message_1.json, perhaps a Platform B file, perhaps a third file
ThirdFiles ==
    {<< <<n, BareRoot(m)>> >> :
        n \in {XJson, ExportJson, Message2},
        m \in {FbList(<< <<Ann, Payload({"content"}, FALSE)>> >>),
               FbList(<< <<Ann, Payload({"is_unsent"}, FALSE)>> >>),
               DiscordList(<< <<Cat, Cat, [content |-> YoHeart]>> >>)}}
    \cup {<< <<Message2, FbRoot(<<Ann>>, FbList(<<c>>))>> >> : c \in FbChoices}

VariedCorpora ==
    {<< <<Message1, FbRoot(names, FbList(c))>> >> \o dm \o third :
        names \in {<<Ann>>, <<Ann, ReneRaw>>},
        c \in Lists(FbChoices, MaxMsgs),
        dm \in {<<>>} \cup {<< <<DmJson, DiscordRoot(DiscordList(d))>> >> :
                                d \in Lists(DiscordChoices, MaxMsgs)},
        third \in {<<>>} \cup ThirdFiles}

\* the corpora of the classification: one message with any set of payload keys,
\* in a file of either platform
ClassifyCorpora ==
    {<< <<Message1, FbRoot(<<Ann>>, FbList(<< <<Ann, Payload(keys, unsent)>> >>))>>,
        <<DmJson, DiscordRoot(DiscordList(<< <<Cat, Cat, [content |-> YoHeart]>> >>))>> >> :
        keys \in SUBSET PayloadKeys, unsent \in BOOLEAN}
    \cup
    {<< <<Message1, FbRoot(<<Ann>>, FbList(<< <<Ann, Payload({"content"}, FALSE)>> >>))>>,
        <<DmJson, DiscordRoot(DiscordList(<< <<Cat, Cat, Payload(keys, unsent)>> >>))>> >> :
        keys \in SUBSET PayloadKeys, unsent \in BOOLEAN}

\* the corpora of the repeated aggregations
PlainCorpora ==
    {<< <<Message1, FbRoot(<<Ann, ReneRaw>>, FbList(c))>>,
        <<DmJson, DiscordRoot(DiscordList(<< <<Cat, Cat, [content |-> YoHeart]>> >>))>> >> :
        c \in Lists({<<Ann, Payload({"content"}, FALSE)>>, <<ReneRaw, Payload({"photos"}, FALSE)>>},
                   MaxMsgs)}

\* a long export: one message a day for n days
LongCorpora ==
    {<< <<Message1, FbRoot(<<Ann>>, List([k \in 1..n |->
                        FbMessage(k - 1, 10, Ann, Payload({"content"}, FALSE))]))>>,
        <<DmJson, DiscordRoot(DiscordList(<< <<Cat, Cat, [content |-> YoHeart]>> >>))>> >> :
        n \in 1..MaxDays}

\* an export whose messages are in no order of date: days after 2021-01-01,
\* after a Platform B message of 2021-01-05
DateOffsets == {0 - 1, 0, 4, 8, 9, 91}

DatedCorpora ==
    {<< <<Message1, FbRoot(<<Ann>>, List([k \in 1..Len(ds) |->
                        FbMessage(ds[k], 10, Ann, Payload({"content"}, FALSE))]))>>,
        <<DmJson, DiscordRoot(<<DiscordMessage(5, Cat, Cat, [content |-> YoHeart])>>)>> >> :
        ds \in UNION {[1..len -> DateOffsets] : len \in 2..MaxDates}}

\* the calls main() makes
MainPlan == <<"weekday", "hour", "emoji", "day", "length">>

FreePlans == Lists({"weekday", "hour", "day", "emoji", "length"}, MaxCalls)

\* the state main() is in once verify_path has passed
Start(d, p) ==
    /\ pc = "metadata"
    /\ err = NoError
    /\ path = Kiki
    /\ dir = d
    /\ plan = p
    /\ ip = 1
    /\ glob_list = <<>>
    /\ file_list = <<>>
    /\ fi = 0
    /\ mi = 0
    /\ used_app = "unbound"
    /\ participants_fb = <<>>
    /\ participants_discord = <<>>
    /\ messages = <<>>
    /\ weekday_frequency = <<>>
    /\ hour_frequency = <<>>
    /\ day_frequency = <<>>
    /\ emoji_frequency = <<>>
    /\ participants_message_count = <<>>
    /\ participants_message_length = <<>>
    /\ graph_x = <<>>
    /\ graph_y = <<>>
    /\ arg = <<>>
    /\ ret = <<>>

\* a directory of message_N.json files, for the order of the files alone
FileNumbers == 1..MaxFileNo

MessageN(n) ==
    <<"m", "e", "s", "s", "a", "g", "e", "_">> \o Digits(n) \o DotJson

DirNames == {List([i \in 1..n |-> "k"]) : n \in 1..MaxDirLen}

NumberedCorpora ==
    {List([k \in 1..Len(ns) |-> <<MessageN(ns[k]), FbRoot(<<Ann>>, <<>>)>>]) :
        ns \in {l \in UNION {[1..len -> FileNumbers] : len \in 2..MaxFiles} :
                    \A i, j \in 1..Len(l) : i < j => l[i] < l[j]}}

\* the arguments of convert_symbols_to_emojis: a few pieces in a row
Pieces ==
    {<<":", ")">>, <<"<", "3">>, <<"h">>, <<")">>, <<"O">>, <<":", "'", "(">>,
     <<" ">>, <<"\n">>}

Arguments == {<<>>} \cup {Flatten(ps) : ps \in Lists(Pieces, MaxPieces)}

Init ==
    \/ \E d \in VariedCorpora : Start(d, MainPlan)
    \/ \E d \in PlainCorpora, p \in FreePlans : Start(d, p)

InitClassify == \E d \in ClassifyCorpora : Start(d, <<>>)

InitAggregate == \E d \in PlainCorpora, p \in FreePlans : Start(d, p)

InitGraphs ==
    \/ \E d \in LongCorpora, p \in {<<"day">>, MainPlan} : Start(d, p)
    \/ \E d \in DatedCorpora : Start(d, <<"day">>)

\* load_messages is entered on a Conversation of any path
InitSort ==
    /\ pc = "glob"
    /\ err = NoError
    /\ path \in DirNames
    /\ dir \in NumberedCorpora
    /\ plan = <<>>
    /\ ip = 1
    /\ glob_list = <<>>
    /\ file_list = <<>>
    /\ fi = 0
    /\ mi = 0
    /\ used_app = "unbound"
    /\ participants_fb = <<Ann>>
    /\ participants_discord = <<Cat>>
    /\ messages = <<>>
    /\ weekday_frequency = <<>>
    /\ hour_frequency = <<>>
    /\ day_frequency = <<>>
    /\ emoji_frequency = <<>>
    /\ participants_message_count = <<>>
    /\ participants_message_length = EmptyLists(<<>>, <<Ann, Cat>>)
    /\ graph_x = <<>>
    /\ graph_y = <<>>
    /\ arg = <<>>
    /\ ret = <<>>

\* convert_symbols_to_emojis is called on its own
InitConvert ==
    /\ pc = "call"
    /\ err = NoError
    /\ path = <<>>
    /\ dir = <<>>
    /\ plan = <<>>
    /\ ip = 1
    /\ glob_list = <<>>
    /\ file_list = <<>>
    /\ fi = 0
    /\ mi = 0
    /\ used_app = "unbound"
    /\ participants_fb = <<>>
    /\ participants_discord = <<>>
    /\ messages = <<>>
    /\ weekday_frequency = <<>>
    /\ hour_frequency = <<>>
    /\ day_frequency = <<>>
    /\ emoji_frequency = <<>>
    /\ participants_message_count = <<>>
    /\ participants_message_length = <<>>
    /\ graph_x = <<>>
    /\ graph_y = <<>>
    /\ arg \in Arguments
    /\ ret = <<>>

NextLoad ==
    \/ LoadConversationMetadata
    \/ Glob
    \/ SortFileList
    \/ OpenFile
    \/ LoadMessage
    \/ CloseFile
    \/ LoadMessagesReturn

NextAnalyze ==
    \/ GetWeekdayFrequency
    \/ GetHourFrequency
    \/ GetDayFrequency
    \/ GetEmojiFrequency
    \/ AnalyzeMessageLength

NextGraphs ==
    \/ CreateGraphsBars
    \/ CreateGraphsSort
    \/ CreateGraphsRolling
    \/ CreateGraphsRest

Next == NextLoad \/ NextAnalyze \/ NextGraphs

NextSort == Glob \/ SortFileList

NextConvert == CallConvertSymbols

\* main() on the varied corpora, and on plain corpora with any plan of calls
Spec == Init /\ [][Next]_vars

\* ingestion of one message of any shape
SpecClassify == InitClassify /\ [][NextLoad]_vars

\* any plan of aggregation calls
SpecAggregate == InitAggregate /\ [][Next]_vars

\* long and scattered exports, up to the plot over time
SpecGraphs == InitGraphs /\ [][Next]_vars

\* the order of the files
SpecSort == InitSort /\ [][NextSort]_vars

\* convert_symbols_to_emojis
SpecConvert == InitConvert /\ [][NextConvert]_vars

(***************************************************************************)
(* Properties                                                              *)
(***************************************************************************)

\* the root of the file the loop is in has neither "channel" nor "participants"
InNeitherFile ==
    /\ pc = "message"
    /\ "channel" \notin DOMAIN CurrentRoot
    /\ "participants" \notin DOMAIN CurrentRoot

\* C1: a file whose root has neither "channel" nor "participants" is fatal:
\* while the loop is in such a file no Message is appended, and the file is
\* never left for the next one, whatever was processed before it
NeitherRootIsFatal ==
    [][InNeitherFile => (messages' = messages /\ pc' # "open")]_vars

\* the message the loop is at has no payload key and its unsent flag is not set
AtDroppable ==
    /\ pc = "message"
    /\ mi <= Len(CurrentRoot.messages)
    /\ DOMAIN CurrentRoot.messages[mi] \cap (PayloadKeys \ {"is_unsent"}) = {}
    /\ "is_unsent" \in DOMAIN CurrentRoot.messages[mi] => ~CurrentRoot.messages[mi].is_unsent

\* C2: a message with no payload key and no set unsent flag (the key may be
\* absent) appends nothing, does not fail, and the loop goes on to the next
DroppedWithoutFailure ==
    [][AtDroppable => (pc' = "message" /\ mi' = mi + 1 /\ messages' = messages /\ err' = err)]_vars

FieldOrder ==
    <<"content", "videos", "photos", "sticker", "gifs", "files", "audio_files", "is_unsent">>
KindOrder ==
    <<"text", "video", "photo", "sticker", "gif", "file", "audio", "deleted">>

\* the kind of the earliest field of FieldOrder that the message has
EarliestKind(m) ==
    KindOrder[CHOOSE i \in 1..Len(FieldOrder) :
                  /\ FieldOrder[i] \in DOMAIN m
                  /\ \A j \in 1..(i - 1) : FieldOrder[j] \notin DOMAIN m]

\* C3: classification is first-match-wins over FieldOrder: whenever a message
\* is appended, exactly one Message is, its kind is the kind of the earliest
\* present field (so content with videos is text), and it is one of the eight
FirstMatchWins ==
    [][(pc = "message" /\ messages' # messages) =>
          /\ Len(messages') = Len(messages) + 1
          /\ DOMAIN CurrentRoot.messages[mi] \cap PayloadKeys # {}
          /\ Last(messages').message_type = EarliestKind(CurrentRoot.messages[mi])
          /\ Last(messages').message_type \in {KindOrder[i] : i \in 1..Len(KindOrder)}
          /\ ({"content", "videos"} \subseteq DOMAIN CurrentRoot.messages[mi]
                  => Last(messages').message_type = "text")]_vars

FirstMatchWinsWitness ==
    /\ pc = "message"
    /\ mi = 2
    /\ {"content", "videos", "is_unsent"} \subseteq DOMAIN CurrentRoot.messages[1]
    /\ messages # <<>>
    /\ Last(messages).message_type = "text"
    /\ Last(messages).platform = "discord"

\* the N of path/message_N.json
FileNumber(f) == ParseInt(SubSeq(f, Len(path) + 10, Len(f) - 5))

\* C4: whatever the length of the path, message_i.json is processed before
\* message_j.json when i < j as numbers
NaturalFileOrder ==
    pc = "open" =>
        \A i, j \in 1..Len(file_list) :
            FileNumber(file_list[i]) < FileNumber(file_list[j]) => i < j

\* the rolling average has been computed in this run
Rolled == pc \in {"graph_rest", "done", "error"} /\ graph_y # <<>>

\* C5: for a histogram of n days the rolling average has n - 30 + 1 values and
\* the labels cut for it are as many, also when n is less than 30
RollingLengthsAgree ==
    Rolled =>
        /\ Len(graph_y) = Len(day_frequency) - AVERAGE_MESSAGE_ROLLING_WINDOW + 1
        /\ Len(graph_x) = Len(graph_y)

\* the calls of f the plan has completed
CallsOf(f) == Cardinality({i \in 1..(ip - 1) : plan[i] = f})

\* the lengths of the text messages of an author, in ingestion order
TextLengths(author) ==
    LET own == SelectSeq(messages, LAMBDA m : m.author = author /\ m.message_type = "text")
    IN  List([i \in 1..Len(own) |-> Len(own[i].content)])

\* C6: after analyze_message_length the samples of every author are the
\* lengths of that author's text messages, in order, and nothing else
SamplesAreTextLengths ==
    CallsOf("length") = 1 =>
        \A k \in 1..Len(participants_message_length) :
            participants_message_length[k][2] = TextLengths(participants_message_length[k][1])

\* C7: analyze_message_length completes without error, and then the count of
\* every author of a Message is the number of Messages of that author
AnalyzeCompletes ==
    /\ ~(pc = "error" /\ err.in = "analyze_message_length")
    /\ CallsOf("length") = 1 =>
          \A i \in 1..Len(messages) :
              /\ DictHas(participants_message_count, messages[i].author)
              /\ DictGet(participants_message_count, messages[i].author)
                     = Cardinality({j \in 1..Len(messages) :
                                        messages[j].author = messages[i].author})

\* (year, month index, day) of a label "<Mon> <day> <year>", as numbers
DateOf(label) ==
    LET t == SplitOn(label, " ")
    IN  <<ParseInt(t[3]), CHOOSE i \in 1..12 : Letters(months[i]) = t[1], ParseInt(t[2])>>

Earlier(a, b) ==
    \/ a[1] < b[1]
    \/ a[1] = b[1] /\ a[2] < b[2]
    \/ a[1] = b[1] /\ a[2] = b[2] /\ a[3] < b[3]

\* C8: sortkey_date orders the day labels chronologically: the key of a is below
\* the key of b exactly when the date of a is earlier, and the sorted labels
\* are the labels of the histogram in the order of their dates
SortedChronologically ==
    pc = "graph_rolling" =>
        /\ \A i, j \in 1..Len(day_frequency) :
               ListLess(sortkey_date(day_frequency[i]), sortkey_date(day_frequency[j]))
                   <=> Earlier(DateOf(day_frequency[i][1]), DateOf(day_frequency[j][1]))
        /\ Len(graph_x) = Len(day_frequency)
        /\ {graph_x[i] : i \in 1..Len(graph_x)} = DictKeys(day_frequency)
        /\ \A i, j \in 1..Len(graph_x) :
               i < j => Earlier(DateOf(graph_x[i]), DateOf(graph_x[j]))

SortedChronologicallyWitness ==
    /\ pc = "graph_rolling"
    /\ Column(day_frequency, 1) =
           << <<"J", "a", "n", " ", "5", " ", "2", "0", "2", "1">>,
              <<"D", "e", "c", " ", "3", "1", " ", "2", "0", "2", "0">>,
              <<"J", "a", "n", " ", "1", " ", "2", "0", "2", "1">> >>
    /\ graph_x =
           << <<"D", "e", "c", " ", "3", "1", " ", "2", "0", "2", "0">>,
              <<"J", "a", "n", " ", "1", " ", "2", "0", "2", "1">>,
              <<"J", "a", "n", " ", "5", " ", "2", "0", "2", "1">> >>

\* the whitespace-delimited tokens of s: its maximal runs without whitespace
TokenSpans(s) ==
    {sp \in (1..Len(s)) \X (1..Len(s)) :
        /\ sp[1] <= sp[2]
        /\ \A k \in sp[1]..sp[2] : ~IsSpace(s[k])
        /\ sp[1] = 1 \/ IsSpace(s[sp[1] - 1])
        /\ sp[2] = Len(s) \/ IsSpace(s[sp[2] + 1])}

WhitespaceTokens(s) ==
    List([k \in 1..Cardinality(TokenSpans(s)) |->
            LET sp == CHOOSE p \in TokenSpans(s) :
                          Cardinality({q \in TokenSpans(s) : q[1] < p[1]}) = k - 1
            IN  SubSeq(s, sp[1], sp[2])])

\* tokens with one space between each two
SingleSpaced(tokens) ==
    Flatten(List([k \in 1..(2 * Len(tokens) - 1) |->
                     IF k % 2 = 1 THEN tokens[(k + 1) \div 2] ELSE <<" ">>]))

\* C9: the output is the tokens of the input joined by single spaces, a token
\* replaced by its emoji exactly when the whole token is one of the 16
\* spellings of the table; the number and order of the tokens is kept
TokenExact ==
    pc = "returned" =>
        LET tokens == WhitespaceTokens(arg)
        IN  /\ Cardinality(DictKeys(convertable_emojis)) = 16
            /\ ret = SingleSpaced(List([k \in 1..Len(tokens) |->
                         IF tokens[k] \in DictKeys(convertable_emojis)
                         THEN DictGet(convertable_emojis, tokens[k])
                         ELSE tokens[k]]))
            /\ Len(WhitespaceTokens(ret)) = Len(tokens)

TokenExactWitness ==
    /\ pc = "returned"
    /\ arg = <<"h", ":", ")", "\n", ":", ")">>
    /\ ret = <<"h", ":", ")", " ", "U+1F642">>

\* the sum of each date histogram is the number of messages times its calls
SumsAreCalls ==
    /\ DictSum(weekday_frequency) = CallsOf("weekday") * Len(messages)
    /\ DictSum(hour_frequency) = CallsOf("hour") * Len(messages)
    /\ DictSum(day_frequency) = CallsOf("day") * Len(messages)

\* C10: each call of a date histogram adds the number of messages to the sum
\* of its counts and leaves the messages and the other aggregates as they
\* were, so that after k calls the sum is k times the number of messages
Accumulates ==
    [][/\ Calling("weekday") =>
              /\ DictSum(weekday_frequency') = DictSum(weekday_frequency) + Len(messages)
              /\ UNCHANGED <<messages, hour_frequency, day_frequency, emoji_frequency,
                             participants_message_count, participants_message_length>>
       /\ Calling("hour") =>
              /\ DictSum(hour_frequency') = DictSum(hour_frequency) + Len(messages)
              /\ UNCHANGED <<messages, weekday_frequency, day_frequency, emoji_frequency,
                             participants_message_count, participants_message_length>>
       /\ Calling("day") =>
              /\ DictSum(day_frequency') = DictSum(day_frequency) + Len(messages)
              /\ UNCHANGED <<messages, weekday_frequency, hour_frequency, emoji_frequency,
                             participants_message_count, participants_message_length>>
       /\ SumsAreCalls
       /\ SumsAreCalls']_vars

AccumulatesWitness ==
    /\ pc = "analyze"
    /\ Len(messages) >= 2
    /\ CallsOf("weekday") = 2
    /\ CallsOf("day") = 1
    /\ DictSum(weekday_frequency) = 2 * Len(messages)
    /\ DictSum(day_frequency) = Len(messages)

====
